---- MODULE Spec2Model ----
(***************************************************************************)
(* Model of the identity-resolution and credential-recovery handlers of    *)
(* server.js: register, login, login-phone, forgot-password,               *)
(* reset-password and the three passport verify callbacks, all working on  *)
(* one JSON file that every handler reads whole and writes whole.          *)
(*                                                                         *)
(* A handler that writes is two steps: the read (validation, readUsers and *)
(* the decision taken on the array read) and the write (writeUsers of the  *)
(* mutated array, then the response).  Other requests run between the two, *)
(* as they do across the awaits of the code.  A handler that does not      *)
(* write answers in its read step.  The response of a step stays in resp   *)
(* until the client has taken it.                                          *)
(***************************************************************************)
EXTENDS Integers, Sequences, FiniteSets, TLC

VARIABLES
    file,       \* the users file: NoFile, or the array it holds
    pending,    \* requests between their read and their write
    now,        \* Date.now(), in milliseconds
    ticks,      \* clock advances so far
    left,       \* writing requests the model may still start
    nextId,     \* next value of crypto.randomUUID()
    resp,       \* the response just sent, NoAnswer once the client has taken it
    regOK,      \* history: registrations answered 201, not reset since
    issued,     \* history: the reset code last handed out for an email, unused so far
    consumed,   \* history: reset codes used by a successful reset-password
    hist        \* history: the responses of the requests that wrote, in order

vars == <<file, pending, now, ticks, left, nextId, resp, regOK, issued, consumed,
         hist>>

-----------------------------------------------------------------------------
(* Bounds of the model *)

MaxReqs == 3
MaxTicks == 1
MaxPending == 2

(* Inputs.  Strings that the code trims or lower-cases are sequences of     *)
(* characters; the others are strings.                                      *)
RawEmails == { <<"a">>, <<" ", "A">>, <<"b">>, <<>> }
LoginEmails == { <<" ", "A">>, <<"b">>, <<>> }
RecoveryEmails == { <<"A", " ">>, <<>> }
ProfileEmails == { <<"A">>, <<>> }
RegPasswords == { "12345678", "1234567", "" }
LoginPasswords == { "12345678", "abcdefghi", "" }
NewPasswords == { "abcdefghi", "1234567", "" }
RawPhones == { <<>>, <<" ", "5">> }
LoginPhones == { <<"5", " ">>, <<>> }
Providers == { "google", "facebook", "github" }
ProfileIds(provider) == IF provider = "google" THEN { "p1", "p2" } ELSE { "p1" }
Codes == { "100000", "999999" }
ReqCodes == Codes \cup { "" }

NoFile == "ENOENT"

-----------------------------------------------------------------------------
(* Strings *)

Lower(c) == CASE c = "A" -> "a"
              [] c = "B" -> "b"
              [] OTHER -> c

IsSpace(c) == c = " "

RECURSIVE TrimStart(_)
TrimStart(s) == IF s # <<>> /\ IsSpace(Head(s)) THEN TrimStart(Tail(s)) ELSE s

RECURSIVE TrimEnd(_)
TrimEnd(s) == IF s # <<>> /\ IsSpace(s[Len(s)])
              THEN TrimEnd(SubSeq(s, 1, Len(s) - 1))
              ELSE s

Trim(s) == TrimEnd(TrimStart(s))

ToLowerCase(s) == [i \in 1..Len(s) |-> Lower(s[i])]

normalizeEmailNoLower(email) == Trim(email)

normalizeEmail(email) == ToLowerCase(Trim(email))

normalizePhone(phone) == Trim(phone)

-----------------------------------------------------------------------------
(* bcrypt.  The salt is left out: a hash is a function of the password.     *)

BcryptHash(password) == "$2a$12$" \o password

(* bcrypt.compare rejects when the hash is not a string *)
BcryptCompare(password, user) ==
    IF "passwordHash" \in DOMAIN user
    THEN IF user.passwordHash = BcryptHash(password) THEN "true" ELSE "false"
    ELSE "throw"

WeakPasswordUnder7(password) == password = "" \/ Len(password) < 7

WeakPassword(password) == password = "" \/ Len(password) < 8

-----------------------------------------------------------------------------
(* Objects: a user is a function from the names of the fields it has.       *)

Has(u, f) == f \in DOMAIN u

Set(u, f, v) == [x \in DOMAIN u \cup {f} |-> IF x = f THEN v ELSE u[x]]

DeleteUnlessExpiry(u, f) == IF f = "resetExpiry" THEN u
                            ELSE [x \in DOMAIN u \ {f} |-> u[x]]

Delete(u, f) == [x \in DOMAIN u \ {f} |-> u[x]]

(* users.find(pred): the index of the first match, 0 when there is none *)
FindIndex(matching) ==
    IF matching = {} THEN 0
    ELSE CHOOSE i \in matching : \A j \in matching : i <= j

ByEmail(users, email) ==
    FindIndex({ i \in 1..Len(users) : users[i].email = email })

ByPhone(users, phone) ==
    FindIndex({ i \in 1..Len(users) :
                  Has(users[i], "phone") /\ users[i].phone = phone })

-----------------------------------------------------------------------------
(* The store *)

readUsers == IF file = NoFile THEN <<>> ELSE file

-----------------------------------------------------------------------------
(* Responses.  body is the JSON body (for an OAuth callback, the payload of  *)
(* the redirect).  The other fields record the request: req its input, at    *)
(* the time of its read, read the array it read, wrote whether it wrote the  *)
(* file, done the user a verify callback handed to passport, used the codes  *)
(* that had been consumed when it read, seen the number of writes that had   *)
(* completed when it read.                                                   *)

Answer(op, status, body, req, read, wrote, done) ==
    [op |-> op, status |-> status, body |-> body, req |-> req, at |-> now,
     read |-> read, wrote |-> wrote, done |-> done, used |-> consumed,
     seen |-> Len(hist)]

Error(message) == [error |-> message]

NoAnswer == [op |-> "none", status |-> 0, body |-> <<>>, req |-> <<>>, at |-> 0,
             read |-> <<>>, wrote |-> FALSE, done |-> <<>>, used |-> {}, seen |-> 0]

ResetWindow == 15 * 60 * 1000

Init ==
    /\ file = NoFile
    /\ pending = {}
    /\ now = 0
    /\ ticks = 0
    /\ left = MaxReqs
    /\ nextId = 1
    /\ resp = NoAnswer
    /\ regOK = {}
    /\ issued = {}
    /\ consumed = {}
    /\ hist = <<>>

(* A request is taken up once the last response has been handed over. *)
Idle == resp.op = "none"

(* The handler answers in its read step: nothing is written. *)
Reply(r) ==
    /\ resp' = r
    /\ UNCHANGED <<file, pending, now, ticks, left, nextId, regOK, issued, consumed,
                   hist>>

(* The handler goes on to writeUsers(users) and then answers r. *)
Defer(op, users, r) ==
    /\ left > 0
    /\ Cardinality(pending) < MaxPending
    /\ pending' = pending \cup {[op |-> op, users |-> users, resp |-> r]}
    /\ left' = left - 1
    /\ UNCHANGED <<file, now, ticks, resp, regOK, issued, consumed, hist>>

WriteIfFresh(p) ==
    /\ file' = IF readUsers = p.resp.read THEN p.users ELSE file
    /\ pending' = pending \ {p}
    /\ resp' = p.resp
    /\ hist' = Append(hist, p.resp)
    /\ UNCHANGED <<now, ticks, left, nextId>>

(* writeUsers(users), then the response *)
Write(p) ==
    /\ file' = p.users
    /\ pending' = pending \ {p}
    /\ resp' = p.resp
    /\ hist' = Append(hist, p.resp)
    /\ UNCHANGED <<now, ticks, left, nextId>>

-----------------------------------------------------------------------------
(* POST /api/register *)

RegisterExistingByPhone(users, normalizedEmail) == ByPhone(users, normalizedEmail)

RegisterExisting(users, normalizedEmail) == ByEmail(users, normalizedEmail)

RegisterRead(email, password, phone) ==
    /\ Idle
    /\ LET normalizedEmail == normalizeEmail(email)
           req == [email |-> email, password |-> password, phone |-> phone]
           users == readUsers
           newUser == [id |-> nextId,
                       email |-> normalizedEmail,
                       username |-> "",
                       phone |-> normalizePhone(phone),
                       passwordHash |-> BcryptHash(password)]
           created == [ok |-> TRUE,
                       user |-> [id |-> newUser.id, email |-> newUser.email,
                                 username |-> newUser.username,
                                 phone |-> newUser.phone]]
       IN  IF normalizedEmail = <<>>
           THEN Reply(Answer("register", 400, Error("Email required"),
                             req, <<>>, FALSE, <<>>))
           ELSE IF WeakPassword(password)
           THEN Reply(Answer("register", 400,
                             Error("Password must be at least 8 characters"),
                             req, <<>>, FALSE, <<>>))
           ELSE IF RegisterExisting(users, normalizedEmail) # 0
           THEN Reply(Answer("register", 409, Error("Email already registered"),
                             req, users, FALSE, <<>>))
           ELSE /\ Defer("register", Append(users, newUser),
                         Answer("register", 201, created, req, users, TRUE, <<>>))
                /\ nextId' = nextId + 1

RegisterWrite(p) ==
    /\ Idle
    /\ p.op = "register"
    /\ Write(p)
    /\ regOK' = regOK \cup {[email |-> p.resp.body.user.email,
                             password |-> p.resp.req.password,
                             id |-> p.resp.body.user.id]}
    /\ UNCHANGED <<issued, consumed>>

-----------------------------------------------------------------------------
(* POST /api/login *)

Login(email, password) ==
    /\ Idle
    /\ LET normalizedEmail == normalizeEmail(email)
           req == [email |-> email, password |-> password]
           users == readUsers
           i == ByEmail(users, normalizedEmail)
           user == users[i]
       IN  IF normalizedEmail = <<>> \/ password = ""
           THEN Reply(Answer("login", 400, Error("Email and password required"),
                             req, <<>>, FALSE, <<>>))
           ELSE IF i = 0
           THEN Reply(Answer("login", 401, Error("Invalid credentials"),
                             req, users, FALSE, <<>>))
           ELSE IF BcryptCompare(password, user) = "throw"
           THEN Reply(Answer("login", 500, Error("Internal server error"),
                             req, users, FALSE, <<>>))
           ELSE IF BcryptCompare(password, user) = "false"
           THEN Reply(Answer("login", 401, Error("Invalid credentials"),
                             req, users, FALSE, <<>>))
           ELSE Reply(Answer("login", 200,
                             [ok |-> TRUE,
                              user |-> [id |-> user.id, email |-> user.email,
                                        username |-> user.username]],
                             req, users, FALSE, <<>>))

-----------------------------------------------------------------------------
(* POST /api/login-phone *)

LoginPhone(phone, password) ==
    /\ Idle
    /\ LET normalizedPhone == normalizePhone(phone)
           req == [phone |-> phone, password |-> password]
           users == readUsers
           i == ByPhone(users, normalizedPhone)
           user == users[i]
       IN  IF normalizedPhone = <<>> \/ password = ""
           THEN Reply(Answer("login-phone", 400, Error("Phone and password required"),
                             req, <<>>, FALSE, <<>>))
           ELSE IF i = 0
           THEN Reply(Answer("login-phone", 401, Error("Invalid credentials"),
                             req, users, FALSE, <<>>))
           ELSE IF BcryptCompare(password, user) = "throw"
           THEN Reply(Answer("login-phone", 500, Error("Internal server error"),
                             req, users, FALSE, <<>>))
           ELSE IF BcryptCompare(password, user) = "false"
           THEN Reply(Answer("login-phone", 401, Error("Invalid credentials"),
                             req, users, FALSE, <<>>))
           ELSE Reply(Answer("login-phone", 200,
                             [ok |-> TRUE,
                              user |-> [id |-> user.id, email |-> user.email,
                                        username |-> user.username,
                                        phone |-> user.phone]],
                             req, users, FALSE, <<>>))

-----------------------------------------------------------------------------
(* POST /api/forgot-password *)

Acknowledgment == [ok |-> TRUE, message |-> "If account exists, reset code sent"]

ExpiryOf(t) == t + ResetWindow

ForgotRead(email, resetCode) ==
    /\ Idle
    /\ LET normalizedEmail == normalizeEmail(email)
           req == [email |-> email]
           users == readUsers
           i == ByEmail(users, normalizedEmail)
           resetExpiry == ExpiryOf(now)
           user == Set(Set(users[i], "resetCode", resetCode),
                       "resetExpiry", resetExpiry)
       IN  IF normalizedEmail = <<>>
           THEN Reply(Answer("forgot-password", 400, Error("Email required"),
                             req, <<>>, FALSE, <<>>))
           ELSE IF i = 0
           THEN Reply(Answer("forgot-password", 200, Acknowledgment,
                             req, users, FALSE, <<>>))
           ELSE /\ Defer("forgot-password", [users EXCEPT ![i] = user],
                         Answer("forgot-password", 200,
                                Set(Acknowledgment, "resetCode", resetCode),
                                req, users, TRUE, <<>>))
                /\ UNCHANGED nextId

ForgotWrite(p) ==
    /\ Idle
    /\ p.op = "forgot-password"
    /\ Write(p)
    /\ LET email == normalizeEmail(p.resp.req.email)
           i == ByEmail(p.users, email)
       IN  /\ issued' = {c \in issued : c.email # email}
                           \cup {[email |-> email,
                                  code |-> p.users[i].resetCode,
                                  expiry |-> p.users[i].resetExpiry]}
           /\ consumed' = {c \in consumed : c.email # email}
    /\ UNCHANGED regOK

-----------------------------------------------------------------------------
(* POST /api/reset-password *)

ExpiredAtDeadline(t, resetExpiry) == t >= resetExpiry

Expired(t, resetExpiry) == t > resetExpiry

ResetRead(email, code, newPassword) ==
    /\ Idle
    /\ LET normalizedEmail == normalizeEmail(email)
           req == [email |-> email, code |-> code, newPassword |-> newPassword]
           users == readUsers
           i == ByEmail(users, normalizedEmail)
           user == Delete(Delete(Set(users[i], "passwordHash",
                                     BcryptHash(newPassword)),
                                 "resetCode"), "resetExpiry")
       IN  IF normalizedEmail = <<>> \/ code = "" \/ newPassword = ""
           THEN Reply(Answer("reset-password", 400,
                             Error("Email, code, and new password required"),
                             req, <<>>, FALSE, <<>>))
           ELSE IF Len(newPassword) < 8
           THEN Reply(Answer("reset-password", 400,
                             Error("Password must be at least 8 characters"),
                             req, <<>>, FALSE, <<>>))
           ELSE IF i = 0 \/ ~Has(users[i], "resetCode") \/ ~Has(users[i], "resetExpiry")
           THEN Reply(Answer("reset-password", 400,
                             Error("Invalid or expired reset code"),
                             req, users, FALSE, <<>>))
           ELSE IF Expired(now, users[i].resetExpiry)
           THEN Reply(Answer("reset-password", 400, Error("Reset code expired"),
                             req, users, FALSE, <<>>))
           ELSE IF users[i].resetCode # code
           THEN Reply(Answer("reset-password", 400, Error("Invalid reset code"),
                             req, users, FALSE, <<>>))
           ELSE /\ Defer("reset-password", [users EXCEPT ![i] = user],
                         Answer("reset-password", 200,
                                [ok |-> TRUE, message |-> "Password reset successful"],
                                req, users, TRUE, <<>>))
                /\ UNCHANGED nextId

ResetWrite(p) ==
    /\ Idle
    /\ p.op = "reset-password"
    /\ Write(p)
    /\ LET email == normalizeEmail(p.resp.req.email)
       IN  /\ regOK' = {r \in regOK : r.email # email}
           /\ issued' = {c \in issued : c.email # email}
           /\ consumed' = consumed \cup {[email |-> email, code |-> p.resp.req.code]}

-----------------------------------------------------------------------------
(* The verify callbacks of the Google, Facebook and GitHub strategies, and   *)
(* the callback routes, which redirect with the user's summary.              *)

Linkage(provider) == CASE provider = "google" -> "googleId"
                       [] provider = "facebook" -> "facebookId"
                       [] provider = "github" -> "githubId"

ByLinkageOnly(users, email, linkage, profileId) ==
    FindIndex({ i \in 1..Len(users) :
                  Has(users[i], linkage) /\ users[i][linkage] = profileId })

ByEmailOrLinkage(users, email, linkage, profileId) ==
    FindIndex({ i \in 1..Len(users) :
                  \/ users[i].email = email
                  \/ (Has(users[i], linkage) /\ users[i][linkage] = profileId) })

Redirect(user) == [user |-> [id |-> user.id, email |-> user.email,
                             username |-> user.username]]

ProviderRead(provider, profileId, profileEmail) ==
    /\ Idle
    /\ LET linkage == Linkage(provider)
           req == [provider |-> provider, id |-> profileId, email |-> profileEmail]
           users == readUsers
           email == normalizeEmail(profileEmail)
           i == ByEmailOrLinkage(users, email, linkage, profileId)
           newUser == Set([id |-> nextId, email |-> email, username |-> ""],
                          linkage, profileId)
           linked == Set(users[i], linkage, profileId)
       IN  IF i = 0
           THEN /\ Defer("oauth", Append(users, newUser),
                         Answer("oauth", 302, Redirect(newUser),
                                req, users, TRUE, newUser))
                /\ nextId' = nextId + 1
           ELSE IF ~Has(users[i], linkage)
           THEN /\ Defer("oauth", [users EXCEPT ![i] = linked],
                         Answer("oauth", 302, Redirect(linked),
                                req, users, TRUE, linked))
                /\ UNCHANGED nextId
           ELSE Reply(Answer("oauth", 302, Redirect(users[i]),
                             req, users, FALSE, users[i]))

ProviderWrite(p) ==
    /\ Idle
    /\ p.op = "oauth"
    /\ Write(p)
    /\ UNCHANGED <<regOK, issued, consumed>>

-----------------------------------------------------------------------------
(* The client takes the response. *)

Deliver ==
    /\ ~Idle
    /\ resp' = NoAnswer
    /\ UNCHANGED <<file, pending, now, ticks, left, nextId, regOK, issued, consumed,
                   hist>>

(* The clock.  Time passes by exactly the reset window, or by just more.  It *)
(* is advanced only while a reset code is stored or about to be: before      *)
(* that no handler compares the clock with anything.                         *)

HoldsCode(users) == \E i \in 1..Len(users) : Has(users[i], "resetExpiry")

Tick ==
    /\ Idle
    /\ ticks < MaxTicks
    /\ HoldsCode(readUsers) \/ \E p \in pending : HoldsCode(p.users)
    /\ \E d \in {ResetWindow, ResetWindow + 1} : now' = now + d
    /\ ticks' = ticks + 1
    /\ UNCHANGED <<file, pending, left, nextId, resp, regOK, issued, consumed, hist>>

-----------------------------------------------------------------------------
Next ==
    \/ \E email \in RawEmails, password \in RegPasswords, phone \in RawPhones :
          RegisterRead(email, password, phone)
    \/ \E p \in pending : RegisterWrite(p)
    \/ \E email \in LoginEmails, password \in LoginPasswords : Login(email, password)
    \/ \E phone \in LoginPhones, password \in LoginPasswords : LoginPhone(phone, password)
    \/ \E email \in RecoveryEmails, resetCode \in Codes : ForgotRead(email, resetCode)
    \/ \E p \in pending : ForgotWrite(p)
    \/ \E email \in RecoveryEmails, code \in ReqCodes, newPassword \in NewPasswords :
          ResetRead(email, code, newPassword)
    \/ \E p \in pending : ResetWrite(p)
    \/ \E provider \in Providers :
          \E profileId \in ProfileIds(provider), profileEmail \in ProfileEmails :
             ProviderRead(provider, profileId, profileEmail)
    \/ \E p \in pending : ProviderWrite(p)
    \/ Deliver
    \/ Tick

Spec == Init /\ [][Next]_vars

(* The same program taken up after one registration has been answered 201:  *)
(* the state that RegisterRead and RegisterWrite of "a" reach from Init.    *)
FirstUser == [id |-> 1, email |-> <<"a">>, username |-> "", phone |-> <<>>,
              passwordHash |-> BcryptHash("12345678")]

FirstRegistration ==
    [op |-> "register", status |-> 201,
     body |-> [ok |-> TRUE,
               user |-> [id |-> 1, email |-> <<"a">>, username |-> "",
                         phone |-> <<>>]],
     req |-> [email |-> <<"a">>, password |-> "12345678", phone |-> <<>>],
     at |-> 0, read |-> <<>>, wrote |-> TRUE, done |-> <<>>, used |-> {}, seen |-> 0]

InitRegistered ==
    /\ file = <<FirstUser>>
    /\ pending = {}
    /\ now = 0
    /\ ticks = 0
    /\ left = MaxReqs
    /\ nextId = 2
    /\ resp = NoAnswer
    /\ regOK = {[email |-> <<"a">>, password |-> "12345678", id |-> 1]}
    /\ issued = {}
    /\ consumed = {}
    /\ hist = <<FirstRegistration>>

SpecRegistered == InitRegistered /\ [][Next]_vars

-----------------------------------------------------------------------------
(* readUsers fails: readFile rejects with a code other than ENOENT, or the  *)
(* file does not parse.  The handler has passed its validation; its catch   *)
(* block answers 500 and nothing is written.                                *)

ReadErrors == { "EACCES", "SyntaxError" }

Thrown(op, req, error) ==
    [op |-> op, status |-> 500, body |-> Error("Internal server error"),
     req |-> req, at |-> now, read |-> <<>>, wrote |-> FALSE, done |-> <<>>,
     used |-> consumed, seen |-> Len(hist), threw |-> error]

CaughtReinitialises(r) ==
    /\ resp' = r
    /\ file' = <<>>
    /\ UNCHANGED <<pending, now, ticks, left, nextId, regOK, issued, consumed, hist>>

Caught(r) == Reply(r)

RegisterLoadFails(email, password, phone, error) ==
    /\ Idle
    /\ normalizeEmail(email) # <<>>
    /\ ~WeakPassword(password)
    /\ Caught(Thrown("register",
                     [email |-> email, password |-> password, phone |-> phone],
                     error))

LoginLoadFails(email, password, error) ==
    /\ Idle
    /\ normalizeEmail(email) # <<>>
    /\ password # ""
    /\ Caught(Thrown("login", [email |-> email, password |-> password], error))

LoginPhoneLoadFails(phone, password, error) ==
    /\ Idle
    /\ normalizePhone(phone) # <<>>
    /\ password # ""
    /\ Caught(Thrown("login-phone", [phone |-> phone, password |-> password], error))

ForgotLoadFails(email, error) ==
    /\ Idle
    /\ normalizeEmail(email) # <<>>
    /\ Caught(Thrown("forgot-password", [email |-> email], error))

ResetLoadFails(email, code, newPassword, error) ==
    /\ Idle
    /\ normalizeEmail(email) # <<>>
    /\ code # ""
    /\ newPassword # ""
    /\ Len(newPassword) >= 8
    /\ Caught(Thrown("reset-password",
                     [email |-> email, code |-> code, newPassword |-> newPassword],
                     error))

(* The five handlers of the JSON API, with reads that may fail *)
NextFaults ==
    \/ \E email \in RawEmails, password \in RegPasswords, phone \in RawPhones :
          RegisterRead(email, password, phone)
    \/ \E p \in pending : RegisterWrite(p)
    \/ \E email \in LoginEmails, password \in LoginPasswords : Login(email, password)
    \/ \E phone \in LoginPhones, password \in LoginPasswords : LoginPhone(phone, password)
    \/ \E email \in RecoveryEmails, resetCode \in Codes : ForgotRead(email, resetCode)
    \/ \E p \in pending : ForgotWrite(p)
    \/ \E email \in RecoveryEmails, code \in ReqCodes, newPassword \in NewPasswords :
          ResetRead(email, code, newPassword)
    \/ \E p \in pending : ResetWrite(p)
    \/ \E email \in RawEmails, password \in RegPasswords, phone \in RawPhones,
          error \in ReadErrors : RegisterLoadFails(email, password, phone, error)
    \/ \E email \in LoginEmails, password \in LoginPasswords, error \in ReadErrors :
          LoginLoadFails(email, password, error)
    \/ \E phone \in LoginPhones, password \in LoginPasswords, error \in ReadErrors :
          LoginPhoneLoadFails(phone, password, error)
    \/ \E email \in RecoveryEmails, error \in ReadErrors : ForgotLoadFails(email, error)
    \/ \E email \in RecoveryEmails, code \in ReqCodes, newPassword \in NewPasswords,
          error \in ReadErrors : ResetLoadFails(email, code, newPassword, error)
    \/ Deliver
    \/ Tick

SpecFaults == Init /\ [][NextFaults]_vars

-----------------------------------------------------------------------------
(* The properties.  They are stated over the persisted collection and over   *)
(* the response just sent, with the normal forms of the inputs written out.  *)

Stored == IF file = NoFile THEN <<>> ELSE file

Canon(raw) == CASE raw \in { <<"a">>, <<"A">>, <<" ", "A">>, <<"A", " ">> } -> <<"a">>
                [] raw = <<"b">> -> <<"b">>
                [] raw = <<>> -> <<>>

LinkageFields == { "googleId", "facebookId", "githubId" }

(* C1: no two records of the persisted collection have the same email,      *)
(* whatever register, OAuth, forgot-password and reset-password requests    *)
(* ran and however their reads and writes interleaved.                      *)
C1_EmailUnique ==
    \A i, j \in 1..Len(Stored) : i # j => Stored[i].email # Stored[j].email

(* A registration of an address is about to be written while the file       *)
(* already holds a record of that address, written by a request that        *)
(* overlapped it.                                                           *)
C1_Witness ==
    \E p \in pending :
        /\ p.op = "register"
        /\ \E i \in 1..Len(Stored) : Stored[i].email = p.resp.body.user.email

(* C2: for each provider, no two records of the persisted collection carry  *)
(* the same external id in that provider's linkage.                         *)
C2_LinkageUnique ==
    \A f \in LinkageFields : \A i, j \in 1..Len(Stored) :
        (i # j /\ Has(Stored[i], f) /\ Has(Stored[j], f)) => Stored[i][f] # Stored[j][f]

(* C3: once a registration of (e, p) has been answered 201 with id i, an    *)
(* email login with an address of the same normal form and password p is    *)
(* answered with the user summary of id i, as long as no reset-password for *)
(* that address has succeeded since.                                        *)
C3_RegisterThenLogin ==
    resp.op = "login" =>
        \A r \in regOK :
            (Canon(resp.req.email) = r.email /\ resp.req.password = r.password)
                => (resp.status = 200 /\ resp.body.user.id = r.id)

(* The record a lookup by address selects in the array a request read *)
Selected(users, address) == { i \in 1..Len(users) : users[i].email = address }

(* C4: a register request that read a collection holding a record of its    *)
(* normalized address is answered 409 "Email already registered", writes    *)
(* nothing and leaves the collection as it read it.                         *)
C4_DuplicateRegistration ==
    (resp.op = "register" /\ Selected(resp.read, Canon(resp.req.email)) # {})
        => /\ resp.status = 409
           /\ resp.body = [error |-> "Email already registered"]
           /\ ~resp.wrote
           /\ Stored = resp.read

(* "A" is refused after "a" was registered *)
C4_Witness ==
    /\ resp.op = "register"
    /\ resp.status = 409
    /\ resp.req.email = <<" ", "A">>
    /\ \E i \in 1..Len(Stored) :
          /\ Stored[i].email = <<"a">>
          /\ Has(Stored[i], "passwordHash")
    /\ \E r \in regOK : r.email = <<"a">>

Verifies(user, password) ==
    Has(user, "passwordHash") /\ user.passwordHash = "$2a$12$" \o password

PhoneKey(raw) == CASE raw \in { <<"5">>, <<"5", " ">>, <<" ", "5">> } -> <<"5">>
                   [] raw = <<>> -> <<>>

(* The record a lookup by phone selects: the first that carries the phone *)
FirstWithPhone(users, phone) ==
    { i \in 1..Len(users) :
        /\ Has(users[i], "phone") /\ users[i].phone = phone
        /\ \A j \in 1..(i - 1) : ~(Has(users[j], "phone") /\ users[j].phone = phone) }

(* C5: a login with a non-empty address and password gets the one answer    *)
(* 401 "Invalid credentials" both when no record has the address and when   *)
(* the record that has it does not verify the password; the same for        *)
(* login-phone and the trimmed phone.                                       *)
C5_LoginAntiEnumeration ==
    /\ (resp.op = "login" /\ Canon(resp.req.email) # <<>> /\ resp.req.password # "")
          => LET found == Selected(resp.read, Canon(resp.req.email))
             IN  (\A i \in found : ~Verifies(resp.read[i], resp.req.password))
                    => (resp.status = 401 /\ resp.body = [error |-> "Invalid credentials"])
    /\ (resp.op = "login-phone" /\ PhoneKey(resp.req.phone) # <<>>
            /\ resp.req.password # "")
          => LET found == FirstWithPhone(resp.read, PhoneKey(resp.req.phone))
             IN  (\A i \in found : ~Verifies(resp.read[i], resp.req.password))
                    => (resp.status = 401 /\ resp.body = [error |-> "Invalid credentials"])

(* C6: the answer of forgot-password to a non-empty address has the same    *)
(* status and the same fields whether or not a record has the address: the  *)
(* status and fields of the answer given when none has.                     *)
C6_ForgotAntiEnumeration ==
    (resp.op = "forgot-password" /\ Canon(resp.req.email) # <<>>)
        => (resp.status = 200 /\ DOMAIN resp.body = {"ok", "message"})

Secrets(users) ==
    { users[i].passwordHash : i \in { k \in 1..Len(users) : Has(users[k], "passwordHash") } }
    \cup { users[i].resetCode : i \in { k \in 1..Len(users) : Has(users[k], "resetCode") } }

Payload(body) ==
    { body[f] : f \in DOMAIN body \ {"ok", "user"} }
    \cup (IF "user" \in DOMAIN body THEN { body.user.username } ELSE {})

(* C7: no response body and no redirect payload carries a passwordHash or a *)
(* resetCode of a record.                                                   *)
C7_NoSecretsInResponses ==
    /\ Payload(resp.body) \cap (Secrets(Stored) \cup Secrets(resp.read)) = {}
    /\ DOMAIN resp.body \cap {"passwordHash", "resetCode"} = {}
    /\ "user" \in DOMAIN resp.body
          => DOMAIN resp.body.user \cap {"passwordHash", "resetCode"} = {}

(* C8: a reset-password with the code that forgot-password handed out for   *)
(* the address, a new password of 8 characters or more, made no later than  *)
(* the code's expiry, succeeds; and none succeeds with a code that a        *)
(* success had already used when the request read the collection, unless    *)
(* forgot-password issued a code for the address in between.                *)
C8_SingleUse ==
    resp.op = "reset-password" =>
        /\ (/\ Len(resp.req.newPassword) >= 8
            /\ \E c \in issued : /\ c.email = Canon(resp.req.email)
                                 /\ c.code = resp.req.code
                                 /\ resp.at <= c.expiry)
              => resp.status = 200
        /\ resp.status = 200
              => [email |-> Canon(resp.req.email), code |-> resp.req.code] \notin resp.used

(* C9: forgot-password stores resetExpiry = the time of issue + 15 minutes; *)
(* a reset-password with the stored code and a valid new password is        *)
(* answered "Reset code expired", with nothing written, when it is          *)
(* evaluated later than resetExpiry, and is not answered so at or before    *)
(* resetExpiry.                                                             *)
C9_ExpiryWindow ==
    /\ (resp.op = "forgot-password" /\ resp.wrote)
          => \E i \in Selected(Stored, Canon(resp.req.email)) :
                /\ Has(Stored[i], "resetExpiry")
                /\ Stored[i].resetExpiry = resp.at + 15 * 60 * 1000
    /\ (resp.op = "reset-password" /\ Len(resp.req.newPassword) >= 8)
          => \A i \in Selected(resp.read, Canon(resp.req.email)) :
                (/\ Has(resp.read[i], "resetCode")
                 /\ Has(resp.read[i], "resetExpiry")
                 /\ resp.read[i].resetCode = resp.req.code)
                   => IF resp.at > resp.read[i].resetExpiry
                      THEN /\ resp.status = 400
                           /\ resp.body = [error |-> "Reset code expired"]
                           /\ ~resp.wrote
                           /\ Stored = resp.read
                      ELSE resp.body # [error |-> "Reset code expired"]

(* The stored code, just past its expiry *)
C9_Witness ==
    /\ resp.op = "reset-password"
    /\ resp.body = [error |-> "Reset code expired"]
    /\ \E i \in 1..Len(resp.read) :
          /\ Has(resp.read[i], "resetCode")
          /\ resp.read[i].resetCode = resp.req.code
          /\ resp.at = resp.read[i].resetExpiry + 1

LinkageOf(provider) == provider \o "Id"

(* The password-registered records of the array read that have the          *)
(* profile's address and no linkage of the profile's provider                *)
Linkable(r) ==
    { k \in 1..Len(r.read) :
        /\ r.read[k].email = Canon(r.req.email)
        /\ Has(r.read[k], "passwordHash")
        /\ ~Has(r.read[k], LinkageOf(r.req.provider)) }

(* The verify callback wrote the array it read with record k linked to the  *)
(* profile's id and nothing else changed, and handed that record on.        *)
LinkedOnto(r, k) ==
    /\ r.wrote
    /\ Len(Stored) = Len(r.read)
    /\ Stored = [r.read EXCEPT ![k] = Set(r.read[k], LinkageOf(r.req.provider), r.req.id)]
    /\ r.done.id = r.read[k].id
    /\ r.done.passwordHash = r.read[k].passwordHash
    /\ r.body.user.id = r.read[k].id

(* C10 as stated: an OAuth resolution whose collection holds a              *)
(* password-registered record R with the profile's normalized address and   *)
(* no linkage of the provider creates no record, sets R's linkage to the    *)
(* profile id, persists it and returns R.                                   *)
C10_AsStated ==
    resp.op = "oauth" => \A k \in Linkable(resp) : LinkedOnto(resp, k)

(* C10 as amended: the same, when no record before R in the collection      *)
(* already carries the profile id in the provider's linkage.                *)
C10_LinkNotDuplicate ==
    resp.op = "oauth" =>
        \A k \in Linkable(resp) :
            (\A j \in 1..(k - 1) :
                ~(/\ Has(resp.read[j], LinkageOf(resp.req.provider))
                  /\ resp.read[j][LinkageOf(resp.req.provider)] = resp.req.id))
                => LinkedOnto(resp, k)

(* A profile was linked onto a registered record, in a collection of more   *)
(* than one record.                                                         *)
C10_Witness ==
    /\ resp.op = "oauth"
    /\ Len(resp.read) > 1
    /\ \E k \in Linkable(resp) : LinkedOnto(resp, k)

(* The earlier verify callbacks that wrote and were called with the profile *)
(* of response r, and had completed when r's callback read the collection:  *)
(* r's callback did not write (it read when it answered), or the array it   *)
(* read already held the record the earlier call had returned.              *)
CompletedBefore(r) ==
    { k \in 1..Len(hist) :
        /\ hist[k].op = "oauth"
        /\ hist[k].req = r.req
        /\ \/ ~r.wrote
           \/ /\ k < Len(hist)
              /\ \E i \in 1..Len(r.read) : r.read[i] = hist[k].done }

(* C11: a verify callback called with the provider, profile id and email of *)
(* an earlier call that has completed writes nothing, leaves the collection *)
(* as it read it and returns the record of the id the earlier call          *)
(* returned.  (That a call writes at most once is the shape of              *)
(* ProviderRead and ProviderWrite.)                                         *)
C11_ResolveIdempotent ==
    resp.op = "oauth" =>
        \A k \in CompletedBefore(resp) :
            /\ ~resp.wrote
            /\ Stored = resp.read
            /\ resp.done.id = hist[k].done.id

TooShort(s) == Len(s) < 8

(* The request was turned down for its password: by register with "Password *)
(* must be at least 8 characters"; by reset-password, whose address and     *)
(* code are given, with that or with "Email, code, and new password         *)
(* required".                                                               *)
RejectedAsWeak(r) ==
    /\ r.status = 400
    /\ \/ r.body = [error |-> "Password must be at least 8 characters"]
       \/ /\ r.op = "reset-password"
          /\ r.body = [error |-> "Email, code, and new password required"]

(* The step left the file as it was *)
FileKept == IF file = NoFile THEN file' = NoFile
            ELSE file' # NoFile /\ file' = file

(* C12: register, given an address, and reset-password, given an address    *)
(* and a code, turn a password down exactly when it is missing or shorter   *)
(* than 8 characters, and the step that turns it down writes nothing: the   *)
(* file and the writes under way are as before.                             *)
C12_WeakPasswordRule ==
    [][ /\ (/\ resp'.op = "register"
            /\ resp' # resp
            /\ Canon(resp'.req.email) # <<>>)
              => /\ RejectedAsWeak(resp') <=> TooShort(resp'.req.password)
                 /\ RejectedAsWeak(resp')
                       => (FileKept /\ pending' = pending /\ ~resp'.wrote)
        /\ (/\ resp'.op = "reset-password"
            /\ resp' # resp
            /\ Canon(resp'.req.email) # <<>>
            /\ resp'.req.code # "")
              => /\ RejectedAsWeak(resp') <=> TooShort(resp'.req.newPassword)
                 /\ RejectedAsWeak(resp')
                       => (FileKept /\ pending' = pending /\ ~resp'.wrote)
      ]_<<resp.op, resp.status>>

(* reset-password turned down a 7-character password, presented with the    *)
(* code the record holds: the code is still there.                          *)
C12_Witness ==
    /\ resp.op = "reset-password"
    /\ resp.req.newPassword = "1234567"
    /\ RejectedAsWeak(resp)
    /\ \E i \in 1..Len(Stored) :
          /\ Has(Stored[i], "resetCode")
          /\ Stored[i].resetCode = resp.req.code
          /\ Stored[i].email = Canon(resp.req.email)

(* C13: every record of the persisted collection has both resetCode and     *)
(* resetExpiry or neither, however the requests interleave.                 *)
C13_ResetFieldsPaired ==
    \A i \in 1..Len(Stored) :
        Has(Stored[i], "resetCode") <=> Has(Stored[i], "resetExpiry")

(* A reset-password has just cleared the fields of a record, in a           *)
(* collection another request had read and has yet to write.                *)
C13_Witness ==
    /\ resp.op = "reset-password"
    /\ resp.wrote
    /\ pending # {}
    /\ \E i \in 1..Len(resp.read) :
          /\ Has(resp.read[i], "resetCode")
          /\ ~Has(Stored[i], "resetCode")
          /\ ~Has(Stored[i], "resetExpiry")

(* C14: when reset-password has answered with success, or with "Reset code  *)
(* expired", the persisted record of the address holds neither resetCode    *)
(* nor resetExpiry.                                                         *)
C14_ClearedOnTerminal ==
    (/\ resp.op = "reset-password"
     /\ \/ resp.status = 200
        \/ resp.body = [error |-> "Reset code expired"])
        => \A i \in Selected(Stored, Canon(resp.req.email)) :
              ~Has(Stored[i], "resetCode") /\ ~Has(Stored[i], "resetExpiry")

Ids(users) == { users[i].id : i \in 1..Len(users) }

(* C15: a record that a completed write has put in the persisted collection *)
(* is in the collection after every later step: no step takes an id out of  *)
(* the file.                                                                *)
C15_NeverRemoved ==
    [][ file # NoFile => (file' # NoFile /\ Ids(file) \subseteq Ids(file')) ]_<<Len(hist)>>

(* The record of the given id in an array *)
WithId(users, id) == { i \in 1..Len(users) : users[i].id = id }

(* r is the response of a verify callback that linked the profile onto a    *)
(* record it found; of a reset-password that succeeded                      *)
IsLink(r) == r.op = "oauth" /\ r.wrote /\ WithId(r.read, r.done.id) # {}

IsReset(r) == r.op = "reset-password" /\ r.status = 200

(* The id of the record a successful reset-password changed *)
ResetIds(r) == { r.read[i].id : i \in Selected(r.read, Canon(r.req.email)) }

(* A link and a reset of the same record, both answered with success, each  *)
(* having read the collection before the other's write: the later writer's  *)
(* array shows the record without the earlier writer's change.              *)
LinkThenReset(l, s) ==
    /\ IsLink(l) /\ IsReset(s)
    /\ l.done.id \in ResetIds(s)
    /\ \A i \in WithId(s.read, l.done.id) : ~Has(s.read[i], LinkageOf(l.req.provider))

ResetThenLink(s, l) ==
    /\ IsReset(s) /\ IsLink(l)
    /\ l.done.id \in ResetIds(s)
    /\ \A i \in WithId(l.read, l.done.id) :
          /\ ~Verifies(l.read[i], s.req.newPassword)
          /\ Has(l.read[i], "resetCode")
          /\ l.read[i].resetCode = s.req.code

(* C16: when a link of a provider onto a record and a successful            *)
(* reset-password of the same record have overlapped, the persisted record  *)
(* after the later write is the later writer's: after the reset's write it  *)
(* verifies the new password and has no linkage of the provider, after the  *)
(* link's write it has the linkage and does not verify the new password.    *)
C16_LostUpdate ==
    (resp.wrote /\ Len(hist) >= 2 /\ resp = hist[Len(hist)]) =>
        \A k \in 1..(Len(hist) - 1) :
            /\ LinkThenReset(hist[k], resp)
                  => /\ WithId(Stored, hist[k].done.id) # {}
                     /\ \A i \in WithId(Stored, hist[k].done.id) :
                           /\ Verifies(Stored[i], resp.req.newPassword)
                           /\ ~Has(Stored[i], LinkageOf(hist[k].req.provider))
            /\ ResetThenLink(hist[k], resp)
                  => /\ WithId(Stored, resp.done.id) # {}
                     /\ \A i \in WithId(Stored, resp.done.id) :
                           /\ Has(Stored[i], LinkageOf(resp.req.provider))
                           /\ Stored[i][LinkageOf(resp.req.provider)] = resp.req.id
                           /\ ~Verifies(Stored[i], hist[k].req.newPassword)

(* Both orders of the two writes *)
C16_Witness ==
    /\ resp.wrote
    /\ Len(hist) >= 2
    /\ resp = hist[Len(hist)]
    /\ \E k \in 1..(Len(hist) - 1) :
          LinkThenReset(hist[k], resp) \/ ResetThenLink(hist[k], resp)

Handlers == { "register", "login", "login-phone", "forgot-password", "reset-password" }

(* C17: a handler whose read of the users file finds no file works on the   *)
(* empty collection and does not answer with the internal error for that;   *)
(* a handler whose read fails otherwise answers 500 "Internal server        *)
(* error" and writes nothing: the file, and the writes under way, are as    *)
(* before.                                                                  *)
C17_StoreReadOutcomes ==
    [][ resp'.op \in Handlers =>
          IF "threw" \in DOMAIN resp'
          THEN /\ resp'.status = 500
               /\ resp'.body = [error |-> "Internal server error"]
               /\ ~resp'.wrote
               /\ FileKept
               /\ pending' = pending
               /\ hist' = hist
          ELSE file = NoFile => (resp'.read = <<>> /\ resp'.status # 500)
      ]_<<resp.op, resp.status>>

(* The read of a login failed while the file held a registered record and   *)
(* another request was about to write.                                      *)
C17_Witness ==
    /\ resp.op = "login"
    /\ "threw" \in DOMAIN resp
    /\ Len(Stored) > 0
    /\ pending # {}

(* C18: an email login with the address of a record of the collection and a *)
(* non-empty password is answered with the user summary or with 401         *)
(* "Invalid credentials", also when the record was created by a verify      *)
(* callback and has no passwordHash.                                        *)
C18_LoginTotal ==
    (/\ resp.op = "login"
     /\ resp.req.password # ""
     /\ Selected(resp.read, Canon(resp.req.email)) # {})
        => \/ resp.status = 200 /\ "user" \in DOMAIN resp.body
           \/ resp.status = 401 /\ resp.body = [error |-> "Invalid credentials"]

(* The registrations answered 201 with a phone, whose record no             *)
(* reset-password has changed since                                         *)
PhoneRegistrations ==
    { k \in 1..Len(hist) :
        /\ hist[k].op = "register"
        /\ hist[k].status = 201
        /\ PhoneKey(hist[k].req.phone) # <<>>
        /\ \A j \in (k + 1)..Len(hist) :
              ~(IsReset(hist[j]) /\ hist[k].body.user.id \in ResetIds(hist[j])) }

(* C19: after register(email, p, ph) with a non-empty trimmed phone was     *)
(* answered 201 with id i, and no reset-password of that record has         *)
(* succeeded, a phone login with (ph, p) is answered with the user summary  *)
(* of id i, whatever other registrations there were.                        *)
C19_PhoneLoginReachesUser ==
    resp.op = "login-phone" =>
        \A k \in PhoneRegistrations :
            (/\ PhoneKey(resp.req.phone) = PhoneKey(hist[k].req.phone)
             /\ resp.req.password = hist[k].req.password)
                => (resp.status = 200 /\ resp.body.user.id = hist[k].body.user.id)

(* The last reset-password that succeeded for an address *)
LastReset(address) ==
    { k \in 1..Len(hist) :
        /\ IsReset(hist[k])
        /\ Canon(hist[k].req.email) = address
        /\ \A j \in (k + 1)..Len(hist) :
              ~(IsReset(hist[j]) /\ Canon(hist[j].req.email) = address) }

(* C20: after reset-password(email, code, newPassword) has succeeded, an    *)
(* email login with (email, newPassword) is answered with the user summary, *)
(* and one with the password the record verified before, when that is       *)
(* another, with 401 "Invalid credentials"; the record may have had no      *)
(* passwordHash before.                                                     *)
C20_PasswordReplaced ==
    (resp.op = "login" /\ resp.req.password # "") =>
        \A k \in LastReset(Canon(resp.req.email)) :
            /\ resp.req.password = hist[k].req.newPassword
                  => resp.status = 200
            /\ (/\ resp.req.password # hist[k].req.newPassword
                /\ \E i \in Selected(hist[k].read, Canon(resp.req.email)) :
                      Verifies(hist[k].read[i], resp.req.password))
                  => (resp.status = 401 /\ resp.body = [error |-> "Invalid credentials"])

(* C21: the record a verify callback hands on for the profile (P, pid) is   *)
(* in the persisted collection with its P linkage equal to pid.             *)
C21_CarriesPresentedIdentity ==
    resp.op = "oauth" =>
        /\ WithId(Stored, resp.done.id) # {}
        /\ \A i \in WithId(Stored, resp.done.id) :
              /\ Has(Stored[i], LinkageOf(resp.req.provider))
              /\ Stored[i][LinkageOf(resp.req.provider)] = resp.req.id

(* r is the response of a forgot-password that stored a code *)
IsForgot(r) == r.op = "forgot-password" /\ r.wrote

(* The forgot-password writes for an address, and the last of them *)
Issues(address) ==
    { k \in 1..Len(hist) : IsForgot(hist[k]) /\ Canon(hist[k].req.email) = address }

LastIssue(address) ==
    { k \in Issues(address) : \A j \in Issues(address) : j <= k }

(* C22: when forgot-password has issued c1 and then c2 (c1 # c2) for an     *)
(* address, the record holds c2 with resetExpiry 15 minutes after the       *)
(* second issue; and a reset-password that reads the collection after the   *)
(* second issue, before any reset of the address has succeeded since, fails *)
(* with c1 and succeeds with c2, a valid new password and a time within     *)
(* those 15 minutes.                                                        *)
C22_ReissueSupersedes ==
    /\ (IsForgot(resp) /\ resp = hist[Len(hist)])
          => \A i \in Selected(Stored, Canon(resp.req.email)) :
                /\ Has(Stored[i], "resetCode") /\ Has(Stored[i], "resetExpiry")
                /\ Stored[i].resetCode = resp.body.resetCode
                /\ Stored[i].resetExpiry = resp.at + 15 * 60 * 1000
    /\ resp.op = "reset-password"
          => \A k2 \in LastIssue(Canon(resp.req.email)) :
                \A k1 \in Issues(Canon(resp.req.email)) :
                    (/\ k1 < k2
                     /\ hist[k1].body.resetCode # hist[k2].body.resetCode
                     /\ resp.seen >= k2
                     /\ \A j \in (k2 + 1)..resp.seen :
                           ~(IsReset(hist[j])
                             /\ Canon(hist[j].req.email) = Canon(resp.req.email)))
                        => /\ resp.req.code = hist[k1].body.resetCode
                                 => resp.status # 200
                           /\ (/\ resp.req.code = hist[k2].body.resetCode
                               /\ Len(resp.req.newPassword) >= 8
                               /\ resp.at <= hist[k2].at + 15 * 60 * 1000)
                                 => resp.status = 200

(* The issue of a code for the address that a request saw: the last         *)
(* forgot-password write among the writes completed when it read            *)
IssueSeen(r, address) ==
    { k \in Issues(address) :
        /\ k <= r.seen
        /\ \A j \in Issues(address) : j <= r.seen => j <= k }

(* C23: of the reset-password requests that carry the code of one issue, at *)
(* most one is answered with success, however they overlap.                 *)
C23_OneChangePerCode ==
    (IsReset(resp) /\ resp = hist[Len(hist)]) =>
        \A k \in 1..(Len(hist) - 1) :
            ~(/\ IsReset(hist[k])
              /\ Canon(hist[k].req.email) = Canon(resp.req.email)
              /\ hist[k].req.code = resp.req.code
              /\ IssueSeen(hist[k], Canon(resp.req.email)) # {}
              /\ IssueSeen(hist[k], Canon(resp.req.email))
                    = IssueSeen(resp, Canon(resp.req.email)))

====
